---- MODULE Spec2Model ----
\* Model of the page-speed report pipeline:
\*   src/src/producer.ts   the bot that enqueues /check requests and matched
\*                         schedules (two variants: database-backed store,
\*                         lines 1-153, and in-memory map, lines 154-253)
\*   src/unnamed/part_000  the RabbitMQ worker (consume -> Lighthouse -> PDF ->
\*                         sendDocument -> ack)
\* The broker (RabbitMQ) is modelled by its AMQP 0-9-1 contract as the two
\* programs use it: one shared named queue, per-channel frame order, manual
\* acknowledgement with a prefetch window, requeue of unacked deliveries when a
\* consumer's connection goes away.
EXTENDS Integers, Sequences, FiniteSets, TLC

VARIABLES
    \* ---- broker ----
    queue,      \* ready messages of 'lighthouse_tasks', head first (message ids)
    body,       \* message id -> content (NoBody while the id is unused)
    unacked,    \* worker -> ids delivered on its channel and not yet resolved
    \* ---- worker processes (part_000) ----
    wstate,     \* worker -> "down" | "up" | "dead" (killed by an unhandled rejection)
    handler,    \* worker -> message id -> activation record of the consume callback
    crashes,    \* number of external worker crashes so far (bounded)
    \* ---- history (observations only, never read by an action's guard) ----
    lastRes,    \* message id -> the resolution the broker last received for it
    ends,       \* message id -> number of callback activations that ran to their end
    ress,       \* message id -> number of ack/nack calls issued for it
    requeued,   \* ids put back by the broker and not yet delivered again
    \* ---- the working directory of the worker processes ----
    file,       \* cwd/report.pdf: absent, or the PDF last written to it
    \* ---- producer process (producer.ts) ----
    pstate,     \* "off" | "up"
    variant,    \* "none" | "db" | "mem": which producer.ts variant is deployed
    table,      \* rows of scheduled_reports (database variant), in id order
    scheduledReports,   \* the in-memory map (key string -> schedule)
    clock,      \* index into Times: the wall-clock minute
    tick,       \* activation record of the CronJob callback
    calls,      \* caller -> activation record of its sendToQueue call
    wire,       \* caller -> the publish frame written to its channel, not yet
                \*           received by the broker
    ncalls,     \* sendToQueue calls started so far (bounded)
    pcrashes,   \* producer crashes so far (bounded)
    zone,       \* the host's time zone: minutes east of UTC of its local time
    \* ---- history ----
    origin,     \* message id -> number of the sendToQueue call that published it
    sentAs,     \* message id -> the (url, chatId) that call was given
    okCalls,    \* numbers of the sendToQueue calls that resolved without error
    replies,    \* what /check answered, per call number
    lastTick,   \* the last CronJob callback that ended in the current minute
    consumed,   \* message ids handed to a consumer (producer-side view)
    \* ---- the bots that analyse in-process (index.ts, part_001) ----
    runs,       \* run -> activation record of a /check handler or cron callback
    got         \* history: what each request of a run ended with

bvars == <<queue, body>>
wonly == <<unacked, wstate, handler, crashes, lastRes, ends, ress, requeued, file>>
ponly == <<pstate, variant, table, scheduledReports, clock, tick, calls, wire,
           ncalls, pcrashes, zone, origin, sentAs, okCalls, replies, lastTick, consumed>>
donly == <<runs, got>>
vars == <<bvars, wonly, ponly, donly>>

\* ------------------------------------------------------------------ bounds
MaxMsgs == 2        \* messages ever published
MaxCrashes == 1     \* external crashes of worker processes
HistCap == 2        \* the history counters saturate here

Workers == {"w1", "w2"}
MsgIds == 1..MaxMsgs
\* A JavaScript string is a sequence of one-character strings. The URLs are
\* short stand-ins; UrlB has the two characters a JSON string must escape.
UrlA == <<"a", ".", "x">>
UrlB == <<"b", "\"", "\\">>
\* the request the worker-side specification publishes (any number of times)
SampleRequests == {<<UrlA, 7>>}
\* the (chat, URL) pairs of the commands the producer-side specification receives
Commands == {<<7, UrlA>>, <<12, UrlB>>}

\* ------------------------------------------------------- strings and numbers
Digits == <<"0", "1", "2", "3", "4", "5", "6", "7", "8", "9">>
IsDigit(c) == \E i \in DOMAIN Digits : Digits[i] = c
DigitVal(c) == (CHOOSE i \in DOMAIN Digits : Digits[i] = c) - 1
\* NaN (and undefined, which isNaN treats alike) is a value apart from every
\* number the inputs can denote; those are all non-negative.
NaN == 0 - 1

RECURSIVE DecVal(_)
DecVal(s) ==
    IF s = <<>> THEN 0
    ELSE DecVal(SubSeq(s, 1, Len(s) - 1)) * 10 + DigitVal(s[Len(s)])

\* Number(s) for the tokens of a /schedule time: the empty string is 0, a run
\* of decimal digits is its value, anything else (of the inputs used here) NaN.
Number(s) ==
    IF \A i \in DOMAIN s : IsDigit(s[i]) THEN DecVal(s) ELSE NaN
isNaN(x) == x = NaN

\* String(n) as a property key, n a non-negative integer
RECURSIVE NumToStr(_)
NumToStr(n) ==
    IF n < 10 THEN <<Digits[n + 1]>>
    ELSE NumToStr(n \div 10) \o <<Digits[(n % 10) + 1]>>

\* parseInt(s): the value of the longest prefix of decimal digits, NaN if none
RECURSIVE DigitPrefix(_)
DigitPrefix(s) ==
    IF s = <<>> \/ ~IsDigit(Head(s)) THEN <<>>
    ELSE <<Head(s)>> \o DigitPrefix(Tail(s))
parseInt(s) == IF DigitPrefix(s) = <<>> THEN NaN ELSE DecVal(DigitPrefix(s))

\* s.split(sep) for a one-character separator
RECURSIVE split(_, _)
split(s, sep) ==
    IF \A i \in DOMAIN s : s[i] # sep THEN <<s>>
    ELSE LET k == CHOOSE i \in DOMAIN s :
                    s[i] = sep /\ \A j \in 1..(i - 1) : s[j] # sep
         IN <<SubSeq(s, 1, k - 1)>> \o split(SubSeq(s, k + 1, Len(s)), sep)

\* ------------------------------------------------------------- wire format
\* The content of a message is its JSON text, character by character.
NoBody == <<>>
Garbage == <<"n", "o", "t", " ", "j", "s", "o", "n">>
\* JSON.stringify of a string: the text between double quotes, with '"' and
\* '\' escaped by a backslash (the other escapes are for control characters,
\* which the strings used here do not contain).
EscapeNone(s) == s
RECURSIVE Escape(_)
Escape(s) ==
    IF s = <<>> THEN <<>>
    ELSE (IF Head(s) \in {"\"", "\\"} THEN <<"\\", Head(s)>> ELSE <<Head(s)>>)
         \o Escape(Tail(s))
StringLiteral(s) == <<"\"">> \o Escape(s) \o <<"\"">>
\* JSON.stringify of a number: its decimal digits; NaN becomes null
NumberLiteral(n) == IF isNaN(n) THEN <<"n", "u", "l", "l">> ELSE NumToStr(n)

KeyUrl == <<"u", "r", "l">>
KeyChatId == <<"c", "h", "a", "t", "I", "d">>

\* JSON.stringify({ url, chatId }), producer.ts line 70
JSONstringify(url, chatId) ==
    <<"{">> \o StringLiteral(KeyUrl) \o <<":">> \o StringLiteral(url) \o <<",">>
    \o StringLiteral(KeyChatId) \o <<":">> \o NumberLiteral(chatId) \o <<"}">>

\* ---- JSON.parse, for texts that are an object of string, number and null
\* ---- members; any other text is a SyntaxError here
Undefined == [t |-> "undefined"]
Bad == [ok |-> FALSE]

\* the characters of a string literal whose opening quote is at s[i - 1]
RECURSIVE ReadChars(_, _, _)
ReadChars(s, i, acc) ==
    IF i > Len(s) THEN Bad
    ELSE IF s[i] = "\"" THEN [ok |-> TRUE, val |-> acc, next |-> i + 1]
    ELSE IF s[i] = "\\"
    THEN IF i + 1 <= Len(s) /\ s[i + 1] \in {"\"", "\\"}
         THEN ReadChars(s, i + 2, Append(acc, s[i + 1]))
         ELSE Bad
    ELSE ReadChars(s, i + 1, Append(acc, s[i]))
ReadString(s, i) ==
    IF i <= Len(s) /\ s[i] = "\"" THEN ReadChars(s, i + 1, <<>>) ELSE Bad

\* a member's value at s[i]: a string, null, or an unsigned integer
ReadValue(s, i) ==
    IF i > Len(s) THEN Bad
    ELSE IF s[i] = "\""
    THEN LET r == ReadString(s, i)
         IN IF r.ok THEN [ok |-> TRUE, val |-> [t |-> "string", s |-> r.val],
                          next |-> r.next]
            ELSE Bad
    ELSE IF i + 3 <= Len(s) /\ SubSeq(s, i, i + 3) = <<"n", "u", "l", "l">>
    THEN [ok |-> TRUE, val |-> [t |-> "null"], next |-> i + 4]
    ELSE LET d == DigitPrefix(SubSeq(s, i, Len(s)))
         IN IF d = <<>> \/ (Len(d) > 1 /\ Head(d) = "0") THEN Bad
            ELSE [ok |-> TRUE, val |-> [t |-> "number", n |-> DecVal(d)],
                  next |-> i + Len(d)]

\* the members from s[i] on, up to the closing brace that ends the text; obj
\* maps the keys read so far to their values (a repeated key: the last wins).
\* Each part is read once and bound before the next is read.
Only(S) == CHOOSE x \in S : TRUE
RECURSIVE ReadMembers(_, _, _)
AfterValue(s, k, v, obj) ==
    IF ~v.ok \/ v.next > Len(s) THEN Bad
    ELSE LET o == [x \in DOMAIN obj \cup {k.val} |->
                     IF x = k.val THEN v.val ELSE obj[x]]
         IN IF s[v.next] = "," THEN ReadMembers(s, v.next + 1, o)
            ELSE IF s[v.next] = "}" /\ v.next = Len(s)
            THEN [ok |-> TRUE, obj |-> o]
            ELSE Bad
AfterKey(s, k, obj) ==
    IF ~k.ok \/ k.next > Len(s) \/ s[k.next] # ":" THEN Bad
    ELSE Only({AfterValue(s, k, v, obj) : v \in {ReadValue(s, k.next + 1)}})
ReadMembers(s, i, obj) ==
    Only({AfterKey(s, k, o) : k \in {ReadString(s, i)}, o \in {obj}})

\* JSON.parse(msg.content.toString()) followed by the destructuring of
\* { url, chatId } (part_000 line 97): a property the object lacks is undefined.
Get(obj, key) == IF key \in DOMAIN obj THEN obj[key] ELSE Undefined
JSONparse(b) ==
    IF Len(b) < 2 \/ b[1] # "{" THEN Bad
    ELSE LET r == IF b = <<"{", "}">> THEN [ok |-> TRUE, obj |-> <<>>]
                  ELSE ReadMembers(b, 2, <<>>)
         IN IF r.ok
            THEN [ok |-> TRUE, url |-> Get(r.obj, KeyUrl),
                  chatId |-> Get(r.obj, KeyChatId), keys |-> DOMAIN r.obj]
            ELSE Bad

\* the messages the producer publishes for the sample requests
SampleMessages == {JSONstringify(r[1], r[2]) : r \in SampleRequests}

\* ------------------------------------------------------------ worker setup
\* channel.prefetch(1)
PrefetchTwo == 1 + 1
Prefetch == 1

\* channel.consume(queue, cb) is called without options: noAck defaults to
\* false, so every delivery stays unacked at the broker until resolved.
NoAckOn == TRUE
NoAck == FALSE

Idle == [pc |-> "none", url |-> Undefined, chatId |-> Undefined,
         chrome |-> FALSE, sent |-> FALSE, doc |-> Undefined, err |-> "none"]

\* path.join(process.cwd(), 'report.pdf'): one fixed path for every callback
\* of every worker process started in the directory. The content of the file
\* is the PDF of the analysis of a URL.
NoFile == [exists |-> FALSE]
PdfOf(url) == [exists |-> TRUE, of |-> url]
Range(s) == {s[i] : i \in DOMAIN s}
Active(w) == {id \in MsgIds : handler[w][id].pc # "none"}

\* What the broker may hand to worker w: all workers consume the one named
\* queue 'lighthouse_tasks', so they compete for its head.
DeliverableAny(w) == {id \in MsgIds : id \in Range(queue)}
DeliverableCopy(w) ==
    {id \in MsgIds : (queue # <<>> /\ id = Head(queue))
                     \/ (\E v \in Workers \ {w} : id \in unacked[v])}
Deliverable(w) == {id \in MsgIds : queue # <<>> /\ id = Head(queue)}

\* The resolution the callback issues for an entry, given the error (if any)
\* caught while handling it: line 111 runs after the try/catch whatever happened.
ResolutionFor(err) == "ack"

\* An async callback that rejects with nobody awaiting it: Node either
\* terminates the process (unhandled rejections throw) or only warns.
RejectionOutcomes == {"crash", "stall"}

AnalysisErrs == {"timeout", "unreachable", "invalid"}

\* checkPageSpeed lines 70-72: the finally block runs whether the try block
\* returned or threw (err is what it threw, "none" if it returned).
FinallyOnReturnOnly(err) == err = "none"
FinallyRuns(err) == TRUE
Transient == {"timeout", "unreachable", "send"}
Structural == {"invalid"}

\* ------------------------------------------------------------------ helpers
Bump(n) == IF n < HistCap THEN n + 1 ELSE n
Without(s, id) == SelectSeq(s, LAMBDA x : x # id)
RECURSIVE SetToSeq(_)
SetToSeq(S) ==
    IF S = {} THEN <<>>
    ELSE LET m == CHOOSE x \in S : \A y \in S : x <= y
         IN <<m>> \o SetToSeq(S \ {m})
Used == {id \in MsgIds : body[id] # NoBody}

\* --------------------------------------------------------------------- Init
WInit ==
    /\ queue = <<>>
    /\ body = [id \in MsgIds |-> NoBody]
    /\ unacked = [w \in Workers |-> {}]
    /\ wstate = [w \in Workers |-> "down"]
    /\ handler = [w \in Workers |-> [id \in MsgIds |-> Idle]]
    /\ crashes = 0
    /\ lastRes = [id \in MsgIds |->
                    [kind |-> "none", sent |-> FALSE, doc |-> Undefined, err |-> "none"]]
    /\ file = NoFile
    /\ ends = [id \in MsgIds |-> 0]
    /\ ress = [id \in MsgIds |-> 0]
    /\ requeued = {}

\* ------------------------------------------------------------------ broker
\* A message reaches the queue: the end of a producer's sendToQueue (b is what
\* JSON.stringify built) or any other publisher of 'lighthouse_tasks'.
Enqueue(b) ==
    /\ \E id \in MsgIds :
        /\ body[id] = NoBody
        /\ \A j \in MsgIds : j < id => body[j] # NoBody
        /\ body' = [body EXCEPT ![id] = b]
        /\ queue' = Append(queue, id)
    /\ UNCHANGED <<unacked, wstate, handler, crashes, lastRes, ends, ress, requeued, file, ponly, donly>>

\* startWorker(): connect, createChannel, assertQueue, prefetch, consume.
startWorker(w) ==
    /\ wstate[w] # "up"
    /\ wstate' = [wstate EXCEPT ![w] = "up"]
    /\ UNCHANGED <<queue, body, unacked, handler, crashes, lastRes, ends, ress, requeued, file, ponly, donly>>

\* The broker pushes one message to w's consumer and the callback is entered.
Deliver(w, id) ==
    /\ wstate[w] = "up"
    /\ id \in Deliverable(w)
    /\ NoAck \/ Cardinality(unacked[w]) < Prefetch
    /\ handler[w][id].pc = "none"
    /\ queue' = Without(queue, id)
    /\ unacked' = IF NoAck THEN unacked
                  ELSE [unacked EXCEPT ![w] = @ \cup {id}]
    /\ handler' = [handler EXCEPT ![w][id] = [Idle EXCEPT !.pc = "parse"]]
    /\ requeued' = requeued \ {id}
    /\ UNCHANGED <<body, wstate, crashes, lastRes, ends, ress, file, ponly, donly>>

\* The broker puts the deliveries S back into the queue at their original
\* positions (ids are given in publish order).
Requeue(q, S) == SetToSeq(Range(q) \cup S)

\* The process of w is gone: its callbacks stop and the broker, seeing the
\* connection close, requeues w's unacked deliveries.
ProcessGone(w, how) ==
    /\ wstate' = [wstate EXCEPT ![w] = how]
    /\ handler' = [handler EXCEPT ![w] = [id \in MsgIds |-> Idle]]
    /\ queue' = Requeue(queue, unacked[w])
    /\ unacked' = [unacked EXCEPT ![w] = {}]
    /\ requeued' = requeued \cup unacked[w]

WorkerCrash(w) ==
    /\ wstate[w] = "up"
    /\ crashes < MaxCrashes
    /\ crashes' = crashes + 1
    /\ ProcessGone(w, "down")
    /\ UNCHANGED <<body, lastRes, ends, ress, file, ponly, donly>>

\* ------------------------------------------------- consume callback, line 95
\* line 97: JSON.parse and destructuring, outside the try block
Parse(w, id) ==
    /\ handler[w][id].pc = "parse"
    /\ \E msg \in {JSONparse(body[id])} :
       IF msg.ok
       THEN /\ handler' = [handler EXCEPT ![w][id].pc = "launch",
                                          ![w][id].url = msg.url,
                                          ![w][id].chatId = msg.chatId]
            /\ UNCHANGED <<queue, unacked, wstate, ends, requeued>>
       ELSE /\ ends' = [ends EXCEPT ![id] = Bump(@)]
            /\ \E o \in RejectionOutcomes :
                 IF o = "crash"
                 THEN ProcessGone(w, "dead")
                 ELSE /\ handler' = [handler EXCEPT ![w][id] = Idle]
                      /\ UNCHANGED <<queue, unacked, wstate, requeued>>
    /\ UNCHANGED <<body, crashes, lastRes, ress, file, ponly, donly>>

\* A step of the callback that moves it from pc `from` either on to `to` or,
\* when the awaited call throws, to the catch block of line 107 and from there
\* to the ack of line 111.
Caught(w, id, e) ==
    handler' = [handler EXCEPT ![w][id].pc = "ack", ![w][id].err = e]

\* checkPageSpeed line 28: chromeLauncher.launch, before the inner try
launch(w, id) ==
    /\ handler[w][id].pc = "launch"
    /\ \/ handler' = [handler EXCEPT ![w][id].pc = "lighthouse",
                                     ![w][id].chrome = TRUE]
       \/ Caught(w, id, "launch")
    /\ UNCHANGED <<queue, body, unacked, wstate, crashes, lastRes, ends, ress, requeued, file, ponly, donly>>

\* checkPageSpeed lines 31-69: the Lighthouse run; any failure is rethrown by
\* the catch of line 64 once the finally block has run. Nothing in the code
\* bounds the wait of line 31: a run that never settles leaves the callback
\* at "hung" for good.
lighthouse(w, id) ==
    /\ handler[w][id].pc = "lighthouse"
    /\ \/ handler' = [handler EXCEPT ![w][id].pc = "kill"]
       \/ \E e \in AnalysisErrs :
            handler' = [handler EXCEPT ![w][id].pc = "kill", ![w][id].err = e]
       \/ handler' = [handler EXCEPT ![w][id].pc = "hung"]
    /\ UNCHANGED <<queue, body, unacked, wstate, crashes, lastRes, ends, ress, requeued, file, ponly, donly>>

\* checkPageSpeed lines 70-72: finally { await chrome.kill() }
kill(w, id) ==
    /\ handler[w][id].pc = "kill"
    /\ handler' = [handler EXCEPT
                     ![w][id].chrome = @ /\ ~FinallyRuns(handler[w][id].err),
                     ![w][id].pc = IF handler[w][id].err = "none" THEN "pdf" ELSE "ack"]
    /\ UNCHANGED <<queue, body, unacked, wstate, crashes, lastRes, ends, ress, requeued, file, ponly, donly>>

\* line 102: generatePDFReport
generatePDFReport(w, id) ==
    /\ handler[w][id].pc = "pdf"
    /\ \/ handler' = [handler EXCEPT ![w][id].pc = "write"]
       \/ Caught(w, id, "pdf")
    /\ UNCHANGED <<queue, body, unacked, wstate, crashes, lastRes, ends, ress, requeued, file, ponly, donly>>

\* line 104: fs.writeFileSync(filePath, pdfBuffer) creates or overwrites the file
writeFileSync(w, id) ==
    /\ handler[w][id].pc = "write"
    /\ \/ /\ handler' = [handler EXCEPT ![w][id].pc = "send"]
          /\ file' = PdfOf(handler[w][id].url)
       \/ /\ Caught(w, id, "write")
          /\ UNCHANGED file
    /\ UNCHANGED <<queue, body, unacked, wstate, crashes, lastRes, ends, ress, requeued, ponly, donly>>

\* line 105: await bot.telegram.sendDocument(chatId, { source: filePath, ... }).
\* The document is given by its path: what is uploaded is what the file holds
\* when the request is built, some time after line 104 returned. A path with
\* no file behind it makes the call throw (ENOENT).
sendDocument(w, id) ==
    /\ handler[w][id].pc = "send"
    /\ IF file.exists
       THEN \/ handler' = [handler EXCEPT ![w][id].pc = "unlink",
                                          ![w][id].sent = TRUE,
                                          ![w][id].doc = file.of]
            \/ Caught(w, id, "send")
       ELSE Caught(w, id, "ENOENT")
    /\ UNCHANGED <<queue, body, unacked, wstate, crashes, lastRes, ends, ress, requeued, file, ponly, donly>>

\* line 106: fs.unlinkSync(filePath) removes whatever file is at the path and
\* throws ENOENT when there is none.
unlinkSync(w, id) ==
    /\ handler[w][id].pc = "unlink"
    /\ IF file.exists
       THEN \/ /\ handler' = [handler EXCEPT ![w][id].pc = "ack"]
               /\ file' = NoFile
            \/ /\ Caught(w, id, "unlink")
               /\ UNCHANGED file
       ELSE /\ Caught(w, id, "ENOENT")
            /\ UNCHANGED file
    /\ UNCHANGED <<queue, body, unacked, wstate, crashes, lastRes, ends, ress, requeued, ponly, donly>>

\* line 111: channel.ack(msg), the end of the callback. The broker applies the
\* resolution to the delivery it holds for w.
ack(w, id) ==
    /\ handler[w][id].pc = "ack"
    /\ LET h == handler[w][id]
           r == ResolutionFor(h.err)
       IN /\ lastRes' = [lastRes EXCEPT ![id] =
                           [kind |-> r, sent |-> h.sent, doc |-> h.doc, err |-> h.err]]
          /\ unacked' = [unacked EXCEPT ![w] = @ \ {id}]
          /\ queue' = IF r = "nack_requeue" /\ id \in unacked[w]
                      THEN Requeue(queue, {id}) ELSE queue
          /\ requeued' = IF r = "nack_requeue" /\ id \in unacked[w]
                         THEN requeued \cup {id} ELSE requeued
    /\ handler' = [handler EXCEPT ![w][id] = Idle]
    /\ ends' = [ends EXCEPT ![id] = Bump(@)]
    /\ ress' = [ress EXCEPT ![id] = Bump(@)]
    /\ UNCHANGED <<body, wstate, crashes, file, ponly, donly>>


\* =================================================================== producer
\* ------------------------------------------------------------------- bounds
MaxCalls == 2       \* sendToQueue calls ever started
MaxRows == 2        \* rows ever inserted into scheduled_reports
MaxPCrashes == 1    \* crashes of the producer process

Callers == {"check", "tick"}
CallIds == 1..MaxCalls

\* ------------------------------------------------------------------- inputs
\* the <HH:MM> arguments users send to /schedule
TimeArgs == { <<"0", "9", ":", "3", "0">>,
              <<"9", ":", "3", "1">>,
              <<"2", "5", ":", "0", "0">>,
              <<"n", "o", "o", "n">> }
\* the instants at which the cron job fires, in turn, in minutes after
\* midnight UTC: 06:00 and 06:01 UTC, which is 09:30 and 09:31 in Tehran
Times == <<360, 361>>

\* 'Asia/Tehran' (line 151) is UTC+03:30 all year
Tehran == 210
\* the time zones of the hosts the producer is run on: Tehran's, and UTC
HostZones == {Tehran, 0}
\* new Date(t).getHours() / .getMinutes(): local time of the host
getHours(t, z) == (((t + z) % 1440) \div 60)
getMinutes(t, z) == ((t + z) % 1440) % 60

\* --------------------------------------------- in-process analysis: bounds
MaxRuns == 2        \* /check handlers and cron callbacks ever started
Runs == 1..MaxRuns
NoRun == [pc |-> "none"]
DoneRun == [pc |-> "done"]

\* ------------------------------------------------------------ schedule store
NoTick == [pc |-> "idle"]
NoCall == [pc |-> "idle"]
NoFrame == [n |-> 0]
NoArgs == [url |-> <<>>, chatId |-> NaN]

PInit ==
    /\ pstate = "off"
    /\ variant = "none"
    /\ table = <<>>
    /\ scheduledReports = <<>>
    /\ clock = 1
    /\ tick = NoTick
    /\ calls = [k \in Callers |-> NoCall]
    /\ wire = [k \in Callers |-> NoFrame]
    /\ ncalls = 0
    /\ pcrashes = 0
    /\ zone = Tehran
    /\ origin = [id \in MsgIds |-> 0]
    /\ sentAs = [id \in MsgIds |-> NoArgs]
    /\ okCalls = {}
    /\ replies = [n \in CallIds |-> "none"]
    /\ lastTick = [done |-> FALSE]
    /\ consumed = {}

DInit ==
    /\ runs = [r \in Runs |-> NoRun]
    /\ got = {}

Init == WInit /\ PInit /\ DInit

\* bot.launch(): the producer process of the deployed variant starts; its
\* in-memory map starts empty, the database table is what it was.
launchBot(v, z) ==
    /\ pstate = "off"
    /\ variant \in {"none", v}
    /\ pstate' = "up"
    /\ variant' = v
    /\ zone' = z
    /\ UNCHANGED <<bvars, wonly, donly, table, scheduledReports, clock, tick, calls, wire,
                   ncalls, pcrashes, origin, sentAs, okCalls, replies, lastTick,
                   consumed>>

\* The producer process dies: its callbacks, connections and unsent frames go
\* with it, and so does the in-memory map.
ProducerCrash ==
    /\ pstate = "up"
    /\ pcrashes < MaxPCrashes
    /\ pcrashes' = pcrashes + 1
    /\ pstate' = "off"
    /\ scheduledReports' = <<>>
    /\ tick' = NoTick
    /\ calls' = [k \in Callers |-> NoCall]
    /\ wire' = [k \in Callers |-> NoFrame]
    /\ UNCHANGED <<bvars, wonly, donly, variant, table, clock, ncalls, zone, origin,
                   sentAs, okCalls, replies, lastTick, consumed>>

\* The wall clock reaches the next minute (after the last one, the first of
\* the next day); lastTick is kept for the current minute only.
Minute ==
    /\ clock' = (clock % Len(Times)) + 1
    /\ lastTick' = [done |-> FALSE]
    /\ UNCHANGED <<bvars, wonly, donly, pstate, variant, table, scheduledReports, tick,
                   calls, wire, ncalls, pcrashes, zone, origin, sentAs, okCalls,
                   replies, consumed>>

\* scheduledReports[chatId] = v : property keys are strings
MapSet(obj, key, v) ==
    [k \in DOMAIN obj \cup {key} |-> IF k = key THEN v ELSE obj[k]]

\* bot.command('schedule'), both variants: `time` is the third word of the
\* message text.
schedule(chatId, url, time) ==
    /\ pstate = "up"
    /\ LET parts == split(time, ":")
           hour == Number(parts[1])
           minute == IF Len(parts) >= 2 THEN Number(parts[2]) ELSE NaN
       IN IF isNaN(hour) \/ isNaN(minute)
          THEN UNCHANGED <<table, scheduledReports>>
          ELSE IF variant = "db"
          THEN /\ Len(table) < MaxRows
               /\ \/ table' = Append(table, [id |-> Len(table) + 1, chatId |-> chatId,
                                             url |-> url, hour |-> hour,
                                             minute |-> minute])
                  \/ table' = table
               /\ UNCHANGED scheduledReports
          ELSE /\ scheduledReports' =
                     MapSet(scheduledReports, NumToStr(chatId),
                            [url |-> url, hour |-> hour, minute |-> minute,
                             chatId |-> chatId])
               /\ UNCHANGED table
    /\ UNCHANGED <<bvars, wonly, donly, pstate, variant, clock, tick, calls, wire, ncalls,
                   pcrashes, zone, origin, sentAs, okCalls, replies, lastTick, consumed>>

\* ------------------------------------------------------ sendToQueue, line 63
\* Where sendToQueue goes once channel.sendToQueue has written the message:
\* it awaits channel.close() and connection.close() before it returns.
AfterPublishReturn == "resolve"
AfterPublish == "chclose"

\* The try/catch around `await sendToQueue` in the cron callback (lines 144-149
\* and 244-248) catches a rejected enqueue.
CatchMissing == FALSE
CatchesEnqueueError == TRUE

\* The schedule filter: `where: { hour: currentHour, minute: currentMinute }`
\* (line 137) and `hour === currentHour && minute === currentMinute` (line 243).
MatchesHourOnly(s, currentHour, currentMinute) == s.hour = currentHour
MatchesOncePerMinute(s, currentHour, currentMinute) ==
    s.hour = currentHour /\ s.minute = currentMinute /\ ~tick.prev.some
Matches(s, currentHour, currentMinute) ==
    s.hour = currentHour /\ s.minute = currentMinute

\* Caller k enters sendToQueue(url, chatId).
Start(k, url, chatId) ==
    /\ ncalls < MaxCalls
    /\ ncalls' = ncalls + 1
    /\ calls' = [calls EXCEPT ![k] = [pc |-> "connect", url |-> url,
                                      chatId |-> chatId, n |-> ncalls + 1]]

\* the dispatches {url, chatId} a tick handed to sendToQueue
Dispatched(att) ==
    [i \in DOMAIN att |-> [url |-> att[i].url, chatId |-> att[i].chatId]]

\* The record of a CronJob callback that ended: when it fired and what
\* getHours/getMinutes gave it, the schedules it read, its sendToQueue calls,
\* whether findAll failed, whether its promise rejected, and the callback
\* for the same time of day that ended before it in the same minute (if any).
Ended(att, storeErr, threw) ==
    [done |-> TRUE, at |-> tick.at, hour |-> tick.hour, minute |-> tick.minute,
     read |-> tick.read, att |-> att, storeErr |-> storeErr, threw |-> threw,
     prev |-> tick.prev]
NoPrev == [some |-> FALSE]

\* The cron callback's loop after its `await sendToQueue` settled.
TickAfter(ok) ==
    LET att == Append(tick.att, [url |-> calls["tick"].url,
                                 chatId |-> calls["tick"].chatId, ok |-> ok])
    IN IF ok \/ CatchesEnqueueError
       THEN /\ tick' = [tick EXCEPT !.pc = "loop", !.att = att, !.todo = Tail(@)]
            /\ UNCHANGED lastTick
       ELSE /\ tick' = NoTick
            /\ lastTick' = Ended(att, FALSE, TRUE)

\* bot.command('check'), lines 101-107: the reply after `await sendToQueue`
\* returned (line 103) or threw into the catch block (line 106)
ReplyAlwaysQueued(ok) == "queued"
ReplyFor(ok) == IF ok THEN "queued" ELSE "failed"

\* The promise of k's sendToQueue settles and k's continuation runs:
\* /check replies (lines 103 / 106), the cron callback logs and goes on.
Settle(k, ok) ==
    /\ calls' = [calls EXCEPT ![k] = NoCall]
    /\ okCalls' = IF ok THEN okCalls \cup {calls[k].n} ELSE okCalls
    /\ IF k = "check"
       THEN /\ replies' = [replies EXCEPT ![calls[k].n] = ReplyFor(ok)]
            /\ UNCHANGED <<tick, lastTick>>
       ELSE /\ TickAfter(ok)
            /\ UNCHANGED replies

\* An awaited AMQP call of k rejects (transport failure): whatever k's channel
\* had not yet got through to the broker is lost with the connection.
Reject(k) ==
    /\ Settle(k, FALSE)
    /\ wire' = [wire EXCEPT ![k] = NoFrame]
    /\ UNCHANGED <<bvars, wonly, donly, pstate, variant, table, scheduledReports, clock,
                   ncalls, pcrashes, zone, origin, sentAs, consumed>>

Advance(k, to) ==
    /\ calls' = [calls EXCEPT ![k].pc = to]
    /\ UNCHANGED <<bvars, wonly, donly, pstate, variant, table, scheduledReports, clock,
                   tick, wire, ncalls, pcrashes, zone, origin, sentAs, okCalls, replies, lastTick,
                   consumed>>

\* line 64: await amqp.connect
connect(k) ==
    /\ calls[k].pc = "connect"
    /\ Advance(k, "createChannel") \/ Reject(k)

\* line 65: await connection.createChannel
createChannel(k) ==
    /\ calls[k].pc = "createChannel"
    /\ Advance(k, "assertQueue") \/ Reject(k)

\* line 68: await channel.assertQueue(queue, { durable: true })
assertQueue(k) ==
    /\ calls[k].pc = "assertQueue"
    /\ Advance(k, "publish") \/ Reject(k)

\* lines 70-71: channel.sendToQueue(queue, Buffer.from(message), { persistent: true })
\* writes the publish frame to the channel and returns at once, or throws
\* (the channel is already closed).
publish(k) ==
    /\ calls[k].pc = "publish"
    /\ \/ /\ calls' = [calls EXCEPT ![k].pc = AfterPublish]
          /\ wire' = [wire EXCEPT ![k] =
                        [n |-> calls[k].n, url |-> calls[k].url,
                         chatId |-> calls[k].chatId,
                         body |-> JSONstringify(calls[k].url, calls[k].chatId)]]
          /\ UNCHANGED <<bvars, wonly, donly, pstate, variant, table, scheduledReports,
                         clock, tick, ncalls, pcrashes, zone, origin, sentAs,
                         okCalls, replies, lastTick, consumed>>
       \/ Reject(k)

\* line 74: await channel.close(). The broker handles the frames of a channel
\* in order, so its close-ok comes after it has taken the publish.
closeChannel(k) ==
    /\ calls[k].pc = "chclose"
    /\ (wire[k] = NoFrame /\ Advance(k, "connclose")) \/ Reject(k)

\* line 75: await connection.close()
closeConnection(k) ==
    /\ calls[k].pc = "connclose"
    /\ Advance(k, "resolve") \/ Reject(k)

\* sendToQueue returns: its promise resolves
resolve(k) ==
    /\ calls[k].pc = "resolve"
    /\ Settle(k, TRUE)
    /\ UNCHANGED <<bvars, wonly, donly, pstate, variant, table, scheduledReports, clock,
                   wire, ncalls, pcrashes, zone, origin, sentAs, consumed>>

\* The broker takes a publish frame off k's channel and appends the persistent
\* message to the durable queue.
BrokerReceive(k) ==
    /\ wire[k] # NoFrame
    /\ \E id \in MsgIds :
        /\ body[id] = NoBody
        /\ \A j \in MsgIds : j < id => body[j] # NoBody
        /\ body' = [body EXCEPT ![id] = wire[k].body]
        /\ origin' = [origin EXCEPT ![id] = wire[k].n]
        /\ sentAs' = [sentAs EXCEPT ![id] = [url |-> wire[k].url,
                                             chatId |-> wire[k].chatId]]
        /\ queue' = Append(queue, id)
    /\ wire' = [wire EXCEPT ![k] = NoFrame]
    /\ UNCHANGED <<wonly, donly, pstate, variant, table, scheduledReports, clock, tick,
                   calls, ncalls, pcrashes, zone, okCalls, replies, lastTick, consumed>>

\* Some consumer of 'lighthouse_tasks' is handed the head of the queue.
Consume ==
    /\ queue # <<>>
    /\ consumed' = consumed \cup {Head(queue)}
    /\ queue' = Tail(queue)
    /\ UNCHANGED <<body, wonly, donly, pstate, variant, table, scheduledReports, clock,
                   tick, calls, wire, ncalls, pcrashes, zone, origin, sentAs, okCalls, replies,
                   lastTick>>

\* bot.command('check'), lines 96-108, with a URL in the message
check(chatId, url) ==
    /\ pstate = "up"
    /\ calls["check"].pc = "idle"
    /\ Start("check", url, chatId)
    /\ UNCHANGED <<bvars, wonly, donly, pstate, variant, table, scheduledReports, clock,
                   tick, wire, pcrashes, zone, origin, sentAs, okCalls, replies, lastTick,
                   consumed>>

\* ------------------------------------------------- CronJob callback, line 131
\* `for (const chatId in scheduledReports)`: integer keys in ascending order
RECURSIVE ForInKeys(_)
ForInKeys(K) ==
    IF K = {} THEN <<>>
    ELSE LET m == CHOOSE x \in K : \A y \in K : DecVal(x) <= DecVal(y)
         IN <<m>> \o ForInKeys(K \ {m})

\* the job fires: new Date(), getHours(), getMinutes() (lines 132-134). The
\* pattern '* * * * *' fires every minute whatever the job's time zone is.
\* `remember` says whether the record of the callback that fired at the same
\* time of day and ended before this one in the current minute is carried
\* along (history only: the code keeps none).
cronFire(remember) ==
    /\ pstate = "up"
    /\ tick.pc = "idle"
    /\ tick' = [pc |-> IF variant = "db" THEN "findAll" ELSE "loop",
                at |-> Times[clock],
                hour |-> getHours(Times[clock], zone),
                minute |-> getMinutes(Times[clock], zone),
                todo |-> IF variant = "db" THEN <<>>
                         ELSE ForInKeys(DOMAIN scheduledReports),
                read |-> <<>>, att |-> <<>>,
                prev |-> IF remember /\ lastTick.done /\ lastTick.at = Times[clock]
                         THEN [some |-> TRUE, read |-> lastTick.read,
                               sent |-> Dispatched(lastTick.att)]
                         ELSE NoPrev]
    /\ lastTick' = [done |-> FALSE]
    /\ UNCHANGED <<bvars, wonly, donly, pstate, variant, table, scheduledReports, clock,
                   calls, wire, ncalls, pcrashes, zone, origin, sentAs, okCalls, replies,
                   consumed>>

\* lines 136-141: await ScheduledReport.findAll({ where: ... }); a rejection
\* leaves the callback (nothing catches it)
findAll ==
    /\ tick.pc = "findAll"
    /\ \/ /\ tick' = [tick EXCEPT
                        !.pc = "loop",
                        !.read = table,
                        !.todo = SelectSeq(table,
                                   LAMBDA r : Matches(r, tick.hour, tick.minute))]
          /\ UNCHANGED <<pstate, scheduledReports, calls, wire, lastTick>>
       \/ /\ tick' = NoTick
          /\ lastTick' = Ended(<<>>, TRUE, TRUE)
          /\ \E o \in RejectionOutcomes :
               IF o = "crash"
               THEN /\ pstate' = "off"
                    /\ scheduledReports' = <<>>
                    /\ calls' = [k \in Callers |-> NoCall]
                    /\ wire' = [k \in Callers |-> NoFrame]
               ELSE UNCHANGED <<pstate, scheduledReports, calls, wire>>
    /\ UNCHANGED <<bvars, wonly, donly, variant, table, clock, ncalls, pcrashes, zone,
                   origin, sentAs, okCalls, replies, consumed>>

\* What the callback has made of the schedule store when it ends: it only
\* reads (findAll; scheduledReports[chatId]), it creates, updates and deletes
\* nothing.
StoreEmptied(store) == <<>>
StoreAfterTick(store) == store

\* the for loop, lines 143-150 and 241-250: the next schedule, or the end
cronLoop ==
    /\ tick.pc = "loop"
    /\ IF tick.todo = <<>>
       THEN /\ lastTick' = Ended(tick.att, FALSE, FALSE)
            /\ tick' = NoTick
            /\ table' = StoreAfterTick(table)
            /\ scheduledReports' = StoreAfterTick(scheduledReports)
            /\ UNCHANGED <<calls, ncalls>>
       ELSE IF variant = "db"
       THEN LET report == Head(tick.todo)
            IN /\ Start("tick", report.url, report.chatId)
               /\ tick' = [tick EXCEPT !.pc = "await"]
               /\ UNCHANGED <<lastTick, table, scheduledReports>>
       ELSE LET chatId == Head(tick.todo)
                s == scheduledReports[chatId]
                seen == Append(tick.read, s)
            IN IF Matches(s, tick.hour, tick.minute)
               THEN /\ Start("tick", s.url, parseInt(chatId))
                    /\ tick' = [tick EXCEPT !.pc = "await", !.read = seen]
                    /\ UNCHANGED <<lastTick, table, scheduledReports>>
               ELSE /\ tick' = [tick EXCEPT !.read = seen, !.todo = Tail(@)]
                    /\ UNCHANGED <<calls, ncalls, lastTick, table, scheduledReports>>
    /\ UNCHANGED <<bvars, wonly, donly, pstate, variant, clock, wire, pcrashes, zone,
                   origin, sentAs, okCalls, replies, consumed>>

\* one step of k's sendToQueue call, or of the broker on k's channel
Transport(k) ==
    \/ connect(k)
    \/ createChannel(k)
    \/ assertQueue(k)
    \/ publish(k)
    \/ closeChannel(k)
    \/ closeConnection(k)
    \/ resolve(k)
    \/ BrokerReceive(k)

\* The schedule matcher: /schedule commands, the clock, the cron callback and
\* the enqueues it makes.
MatcherNext ==
    \/ \E v \in {"db", "mem"} : launchBot(v, Tehran)
    \/ Minute
    \/ \E c \in Commands, t \in TimeArgs : schedule(c[1], c[2], t)
    \/ cronFire(FALSE)
    \/ findAll
    \/ cronLoop
    \/ \E k \in Callers : Transport(k)

MatcherSpec == Init /\ [][MatcherNext]_vars

\* The schedule matcher invoked more than once in a minute: as MatcherSpec,
\* with well-formed times only, and each callback remembering the one before.
WellFormedTimeArgs ==
    {t \in TimeArgs : /\ Len(split(t, ":")) = 2
                      /\ Number(split(t, ":")[1]) \in 0..23
                      /\ Number(split(t, ":")[2]) \in 0..59}
DoubleTickNext ==
    \/ \E v \in {"db", "mem"} : launchBot(v, Tehran)
    \/ Minute
    \/ \E c \in Commands, t \in WellFormedTimeArgs : schedule(c[1], c[2], t)
    \/ cronFire(TRUE)
    \/ findAll
    \/ cronLoop
    \/ \E k \in Callers : Transport(k)

DoubleTickSpec == Init /\ [][DoubleTickNext]_vars

\* The schedule matcher on hosts of different time zones.
ZoneNext ==
    \/ \E v \in {"db", "mem"}, z \in HostZones : launchBot(v, z)
    \/ Minute
    \/ \E c \in Commands, t \in WellFormedTimeArgs : schedule(c[1], c[2], t)
    \/ cronFire(FALSE)
    \/ findAll
    \/ cronLoop
    \/ \E k \in Callers : Transport(k)

ZoneSpec == Init /\ [][ZoneNext]_vars

\* The enqueue path: /check commands, sendToQueue against the broker, a
\* consumer, and crashes of the producer.
EnqueueNext ==
    \/ \E v \in {"db", "mem"} : launchBot(v, Tehran)
    \/ ProducerCrash
    \/ \E c \in Commands : check(c[1], c[2])
    \/ \E k \in Callers : Transport(k)
    \/ Consume

EnqueueSpec == Init /\ [][EnqueueNext]_vars

\* ======================================================== in-process bots
\* src/src/index.ts (Lighthouse in the bot process) and src/unnamed/part_001
\* (PageSpeed API): the /check handler and the cron callback analyse, render,
\* write report.pdf, send it and unlink it themselves. All runs are callbacks
\* of one process: a step below is what runs between two awaits.
rest == <<bvars, unacked, wstate, handler, crashes, lastRes, ends, ress, requeued, ponly>>

\* the schedules a cron callback finds matching, in for-in order of chat id
TickLoads ==
    {<<c>> : c \in Commands} \cup
    {p \in Commands \X Commands : p[1][1] < p[2][1]}

FreeRun(r) ==
    /\ runs[r].pc = "none"
    /\ \A q \in Runs : q < r => runs[q].pc # "none"

\* a run takes up the first of the requests `todo`
Item(kind, todo) ==
    [pc |-> "analyse", kind |-> kind, chatId |-> todo[1][1], url |-> todo[1][2],
     doc |-> NoFile, todo |-> Tail(todo)]

\* the handler returns, or the cron loop goes on to its next matching schedule
NextItem(run) == IF run.todo = <<>> THEN DoneRun ELSE Item(run.kind, run.todo)

\* the request run r is working on ends: with the document doc delivered (or
\* none) and the error e caught by the catch block (or none)
Ends(r, doc, e) ==
    /\ got' = got \cup {[chatId |-> runs[r].chatId, url |-> runs[r].url,
                         doc |-> doc, err |-> e]}
    /\ runs' = [runs EXCEPT ![r] = NextItem(runs[r])]

\* bot.command('check'), index.ts lines 121-127 (part_001 lines 68-74)
checkDirect(chatId, url) ==
    /\ \E r \in Runs : FreeRun(r) /\ runs' = [runs EXCEPT ![r] = Item("check", <<<<chatId, url>>>>)]
    /\ UNCHANGED <<got, file, rest>>

\* the CronJob callback, index.ts lines 156-165 (part_001 lines 103-112), with
\* the schedules that match the current hour and minute
cronDirect(todo) ==
    /\ \E r \in Runs : FreeRun(r) /\ runs' = [runs EXCEPT ![r] = Item("tick", todo)]
    /\ UNCHANGED <<got, file, rest>>

\* await checkPageSpeed(url) settles (lines 127 / 165)
checkPageSpeed(r) ==
    /\ runs[r].pc = "analyse"
    /\ \/ runs' = [runs EXCEPT ![r].pc = "pdf"] /\ UNCHANGED got
       \/ Ends(r, NoFile, "analysis")
    /\ UNCHANGED <<file, rest>>

\* await generatePDFReport settles; fs.writeFileSync(filePath, pdfBuffer) and
\* the call of replyWithDocument / sendDocument follow without an await
\* (lines 128-131 / 166-169)
writeReport(r) ==
    /\ runs[r].pc = "pdf"
    /\ \/ /\ runs' = [runs EXCEPT ![r].pc = "send"]
          /\ file' = PdfOf(runs[r].url)
          /\ UNCHANGED got
       \/ /\ Ends(r, NoFile, "pdf")
          /\ UNCHANGED file
    /\ UNCHANGED rest

\* during the await of replyWithDocument / sendDocument the file at filePath
\* is read and uploaded: the document is what the file holds then
replyWithDocument(r) ==
    /\ runs[r].pc = "send"
    /\ IF file.exists
       THEN \/ runs' = [runs EXCEPT ![r].pc = "unlink", ![r].doc = file] /\ UNCHANGED got
            \/ Ends(r, NoFile, "send")
       ELSE Ends(r, NoFile, "ENOENT")
    /\ UNCHANGED <<file, rest>>

\* the send has settled: fs.unlinkSync(filePath) "Clean up the file"
\* (lines 132 / 170), which throws ENOENT when the file is gone
cleanUp(r) ==
    /\ runs[r].pc = "unlink"
    /\ IF file.exists
       THEN Ends(r, runs[r].doc, "none") /\ file' = NoFile
       ELSE Ends(r, runs[r].doc, "ENOENT") /\ UNCHANGED file
    /\ UNCHANGED rest

DirectNext ==
    \/ \E c \in Commands : checkDirect(c[1], c[2])
    \/ \E todo \in TickLoads : cronDirect(todo)
    \/ \E r \in Runs : checkPageSpeed(r)
    \/ \E r \in Runs : writeReport(r)
    \/ \E r \in Runs : replyWithDocument(r)
    \/ \E r \in Runs : cleanUp(r)

DirectSpec == Init /\ [][DirectNext]_vars

\* ===================================================================== specs
\* one step of the consume callback of w for entry id
Callback(w, id) ==
    \/ Parse(w, id)
    \/ launch(w, id)
    \/ lighthouse(w, id)
    \/ kill(w, id)
    \/ generatePDFReport(w, id)
    \/ writeFileSync(w, id)
    \/ sendDocument(w, id)
    \/ unlinkSync(w, id)
    \/ ack(w, id)

WNext ==
    \/ \E b \in SampleMessages : Enqueue(b)
    \/ Enqueue(Garbage)
    \/ \E w \in Workers : startWorker(w)
    \/ \E w \in Workers : WorkerCrash(w)
    \/ \E w \in Workers, id \in MsgIds : Deliver(w, id)
    \/ \E w \in Workers, id \in MsgIds : Callback(w, id)

WorkerSpec == Init /\ [][WNext]_vars

\* Scale-out: two worker processes started from the same working directory,
\* no crash, and requests for different URLs.
ScaleOutMessages == {JSONstringify(c[2], c[1]) : c \in Commands}
ScaleOutNext ==
    \/ \E b \in ScaleOutMessages : Enqueue(b)
    \/ \E w \in Workers : startWorker(w)
    \/ \E w \in Workers, id \in MsgIds : Deliver(w, id)
    \/ \E w \in Workers, id \in MsgIds : Callback(w, id)

ScaleOutSpec == Init /\ [][ScaleOutNext]_vars

\* A stopped worker process is started again (the "this or another worker" of
\* the at-least-once contract), the broker does not for ever pass over a
\* consumer that keeps having a free prefetch slot while a message is ready,
\* and every call the callback awaits settles.
FairWorkerSpec ==
    /\ WorkerSpec
    /\ \A w \in Workers, id \in MsgIds : WF_vars(Callback(w, id))
    /\ \A w \in Workers : WF_vars(startWorker(w))
    /\ \A w \in Workers, id \in MsgIds : SF_vars(Deliver(w, id))

\* The whole pipeline with one worker process and no crash: /check commands,
\* sendToQueue, the broker, and the worker's consume callback.
TheWorker == "w1"
PipelineNext ==
    \/ \E v \in {"db", "mem"} : launchBot(v, Tehran)
    \/ \E c \in Commands : check(c[1], c[2])
    \/ \E k \in Callers : Transport(k)
    \/ startWorker(TheWorker)
    \/ \E id \in MsgIds : Deliver(TheWorker, id)
    \/ \E id \in MsgIds : Callback(TheWorker, id)

PipelineSpec == Init /\ [][PipelineNext]_vars

\* Every call the callback awaits settles unless it hangs, a worker that is
\* not running is started, and the broker hands a ready message to a consumer
\* with a free prefetch slot.
FairPipelineSpec ==
    /\ PipelineSpec
    /\ WF_vars(startWorker(TheWorker))
    /\ \A id \in MsgIds : WF_vars(Deliver(TheWorker, id))
    /\ \A id \in MsgIds : WF_vars(Callback(TheWorker, id))

\* ================================================================= properties
Stalled(w) == wstate[w] = "up" /\ \E id \in unacked[w] : handler[w][id].pc = "none"

\* C1: an ack of an entry is issued only after the report for that entry was
\* delivered to the requester; an entry whose analysis, PDF generation or
\* delivery failed is never acked.
C1_AckOnlyAfterDelivery ==
    \A id \in MsgIds : lastRes[id].kind = "ack" => lastRes[id].sent

\* C2: once the callback for an entry has run to its end, the entry has
\* received exactly one resolution per activation: never zero, never two.
C2_ExactlyOneResolution ==
    \A id \in MsgIds :
        (\A w \in Workers : handler[w][id].pc = "none") => ress[id] = ends[id]

\* C3: no enqueued entry is lost without having been acked; a worker that
\* goes away hands its unacked entries back to the queue, and an entry handed
\* back is eventually delivered to a worker again.
Redelivered == \A id \in MsgIds : (id \in requeued) ~> (id \notin requeued)
NoEntryLost ==
    \A id \in Used :
        \/ id \in Range(queue)
        \/ \E w \in Workers : id \in unacked[w]
        \/ lastRes[id].kind = "ack"
CrashRequeues ==
    \A w \in Workers :
        (wstate[w] = "up" /\ wstate'[w] # "up") => unacked[w] \subseteq Range(queue')
C3_AtLeastOnce ==
    /\ []NoEntryLost
    /\ [][CrashRequeues]_vars
    /\ Redelivered

\* C4: one worker never has two entries in its callback at once, and never
\* more than one Chrome instance.
C4_OneAtATime ==
    \A w \in Workers :
        /\ Cardinality(Active(w)) <= 1
        /\ Cardinality({id \in MsgIds : handler[w][id].chrome}) <= 1
C4_Witness ==
    \E w \in Workers, id \in MsgIds :
        /\ handler[w][id].chrome
        /\ queue # <<>>
        /\ \A v \in Workers \ {w} : wstate[v] # "up"
        /\ lastRes[Head(queue)].kind = "none"

\* C5: no entry is in the callbacks of two workers at the same time.
C5_OneWorkerPerEntry ==
    \A id \in MsgIds : \A w, v \in Workers :
        (id \in Active(w) /\ id \in Active(v)) => w = v
\* ... while two distinct entries carrying the same URL are in analysis on two
\* workers at once (no dedup).
C5_Witness ==
    \E i, j \in MsgIds, w, v \in Workers :
        /\ i # j /\ w # v
        /\ handler[w][i].pc = "lighthouse" /\ handler[v][j].pc = "lighthouse"
        /\ JSONparse(body[i]).url = JSONparse(body[j]).url
        /\ crashes = 0

\* C6: an error while handling one entry never kills the worker process and
\* never leaves it holding an unresolved entry with no callback running.
C6_ErrorsIsolated ==
    \A w \in Workers : wstate[w] # "dead" /\ ~Stalled(w)

\* C7: a transient failure is resolved by nack(requeue=true), a structural one
\* by nack(requeue=false).
C7_FailureClassified ==
    \A id \in MsgIds :
        /\ lastRes[id].err \in Transient => lastRes[id].kind = "nack_requeue"
        /\ lastRes[id].err \in Structural => lastRes[id].kind = "nack_drop"

\* the dispatches {url, chatId} a tick at hour:minute owes to the schedules it read
Owed(read, hour, minute) ==
    LET due == SelectSeq(read, LAMBDA s : s.hour = hour /\ s.minute = minute)
    IN [i \in DOMAIN due |-> [url |-> due[i].url, chatId |-> due[i].chatId]]
\* C8: a tick at wall-clock minute T hands sendToQueue exactly one dispatch
\* {url: S.url, chatId: S.chatId} for every schedule S it read with
\* S.hour = T.hour and S.minute = T.minute, and none for any other schedule,
\* in the database variant and in the in-memory variant.
C8_MatchExact ==
    lastTick.done =>
        Dispatched(lastTick.att) = Owed(lastTick.read, lastTick.hour, lastTick.minute)
\* a 09:30 schedule and a 9:31 schedule read by a tick at 09:30 of the
\* in-memory variant: one dispatch
C8_Witness ==
    /\ lastTick.done
    /\ variant = "mem"
    /\ lastTick.hour = 9 /\ lastTick.minute = 30
    /\ Len(lastTick.read) = 2
    /\ Len(lastTick.att) = 1
    /\ \E i \in DOMAIN lastTick.read : lastTick.read[i].minute = 31

\* C9: whenever sendToQueue has resolved without error (and /check has replied
\* that the request is queued), the message is in the queue unless a consumer
\* has taken it; this stays so when the producer crashes afterwards.
C9_SuccessMeansQueued ==
    \A n \in CallIds :
        (n \in okCalls \/ replies[n] = "queued") =>
            \E id \in MsgIds :
                origin[id] = n /\ (id \in Range(queue) \/ id \in consumed)
C9_Witness ==
    \E n \in okCalls, id \in MsgIds :
        /\ replies[n] = "queued"
        /\ origin[id] = n
        /\ id \in Range(queue)
        /\ pstate = "off" /\ pcrashes > 0

\* C10: a rejected sendToQueue inside a tick leaves the loop running with the
\* schedules still to come, and a tick that ends has made one attempt for each
\* matching schedule, failed attempts included.
EnqueueRejectedInTick ==
    /\ tick.pc = "await"
    /\ calls["tick"].pc # "idle"
    /\ calls'["tick"].pc = "idle"
    /\ okCalls' = okCalls
TickGoesOn ==
    /\ tick'.pc = "loop"
    /\ tick'.todo = Tail(tick.todo)
    /\ Len(tick'.att) = Len(tick.att) + 1
OneAttemptPerMatch ==
    lastTick.done =>
        Len(lastTick.att) = Len(Owed(lastTick.read, lastTick.hour, lastTick.minute))
C10_FailureIsolated ==
    /\ []OneAttemptPerMatch
    /\ [][EnqueueRejectedInTick => TickGoesOn]_vars
\* two matching rows, the first enqueue rejected, the second made and successful
C10_Witness ==
    /\ lastTick.done
    /\ variant = "db"
    /\ Len(lastTick.att) = 2
    /\ ~lastTick.att[1].ok
    /\ lastTick.att[2].ok

\* C11: when ScheduledReport.findAll fails in a tick, the tick makes no
\* dispatch, the failure stays inside the callback (its promise does not
\* reject) and the producer process keeps running.
C11_StoreFailureContained ==
    (lastTick.done /\ lastTick.storeErr) =>
        /\ lastTick.att = <<>>
        /\ ~lastTick.threw
        /\ pstate = "up"

\* C12: what the worker's parse of a delivered message yields is the url and
\* the chatId that sendToQueue was given, and the message has exactly the two
\* fields url and chatId.
C12_RoundTrip ==
    \A id \in MsgIds : origin[id] # 0 =>
        /\ \E msg \in {JSONparse(body[id])} :
             msg.ok /\ msg.keys = {KeyUrl, KeyChatId}
        /\ \A w \in Workers : handler[w][id].pc \notin {"none", "parse"} =>
             /\ handler[w][id].url = [t |-> "string", s |-> sentAs[id].url]
             /\ handler[w][id].chatId = [t |-> "number", n |-> sentAs[id].chatId]
\* the request with the URL that needs escaping and the two-digit chat id has
\* been parsed by the worker
C12_Witness ==
    \E id \in MsgIds :
        /\ origin[id] # 0
        /\ handler[TheWorker][id].pc = "lighthouse"
        /\ sentAs[id].url = UrlB
        /\ sentAs[id].chatId = 12

\* C13: a worker holds a Chrome instance only inside checkPageSpeed, for the
\* one entry it is handling and has not resolved; once checkPageSpeed is left
\* (by return or by throw) the instance is released, so none is held at the
\* ack, while idle, or when the next entry is delivered.
C13_ChromeReleased ==
    \A w \in Workers, id \in MsgIds :
        handler[w][id].chrome =>
            /\ handler[w][id].pc \in {"lighthouse", "hung", "kill"}
            /\ id \in unacked[w]
            /\ Active(w) = {id}
\* Lighthouse threw with Chrome running, the callback is at its ack with the
\* instance released, and the next entry waits in the queue
C13_Witness ==
    \E w \in Workers, id \in MsgIds :
        /\ handler[w][id].pc = "ack"
        /\ handler[w][id].err \in AnalysisErrs
        /\ ~handler[w][id].chrome
        /\ queue # <<>>

\* C14: an analysis that has started is over after a bounded wait: the Chrome
\* instance is eventually released, and every entry waiting in the queue is
\* eventually resolved.
C14_AnalysisBounded ==
    /\ \A id \in MsgIds :
         handler[TheWorker][id].chrome ~> ~handler[TheWorker][id].chrome
    /\ \A id \in MsgIds :
         (id \in Range(queue)) ~> (lastRes[id].kind # "none")

\* C15: a sendToQueue call that ends by a rejected connect, createChannel,
\* assertQueue or close is reported as a failure to its caller: /check
\* replies 'Failed to queue your request.', the cron callback records the
\* failed attempt for that schedule; and /check replies 'Your request has
\* been queued.' only for a call whose message the broker has taken.
RejectedCall(k) ==
    /\ calls[k].pc \notin {"idle", "resolve"}
    /\ calls'[k].pc = "idle"
    /\ pstate' = "up"
Surfaced(k) ==
    /\ calls[k].n \notin okCalls'
    /\ k = "check" => replies'[calls[k].n] = "failed"
    /\ k = "tick" => /\ tick'.att # <<>>
                     /\ ~tick'.att[Len(tick'.att)].ok
                     /\ tick'.att[Len(tick'.att)].url = calls[k].url
                     /\ tick'.att[Len(tick'.att)].chatId = calls[k].chatId
QueuedReplyIsTrue ==
    \A n \in CallIds : replies[n] = "queued" => \E id \in MsgIds : origin[id] = n
C15_FailureSurfaced ==
    /\ []QueuedReplyIsTrue
    /\ [][\A k \in Callers : RejectedCall(k) => Surfaced(k)]_vars
\* /check has answered 'Failed to queue your request.' for a call whose
\* message never reached the queue, and 'queued' for another that did
C15_Witness ==
    \E n, q \in CallIds :
        /\ replies[n] = "failed"
        /\ \A id \in MsgIds : origin[id] # n
        /\ replies[q] = "queued"

\* C16: every schedule in the store, database table or in-memory map, has its
\* hour in 0..23 and its minute in 0..59.
InRange(sch) == sch.hour \in 0..23 /\ sch.minute \in 0..59
C16_ScheduleInRange ==
    /\ \A i \in DOMAIN table : InRange(table[i])
    /\ \A key \in DOMAIN scheduledReports : InRange(scheduledReports[key])

\* C17: no step of the CronJob callback (its firing, findAll, its loop, its
\* sendToQueue calls, whether they succeed or fail) changes the schedule
\* store, database table or in-memory map.
TickStep == <<tick, calls["tick"], lastTick>>' # <<tick, calls["tick"], lastTick>>
C17_TickReadOnly == [][TickStep => UNCHANGED <<table, scheduledReports>>]_vars
\* a tick has dispatched the schedules that matched, one enqueue failing and
\* one succeeding, and the table still holds the rows it read
C17_Witness ==
    /\ lastTick.done
    /\ variant = "db"
    /\ Len(lastTick.att) = 2
    /\ lastTick.att[1].ok /\ ~lastTick.att[2].ok
    /\ table = lastTick.read

\* C18: a CronJob callback that fires in the minute in which another one,
\* fired for that same minute, has ended makes its own dispatch for every
\* schedule that matches, whatever the earlier one dispatched; reading the
\* same schedules, it makes the same dispatches again.
C18_DoubleTick ==
    (lastTick.done /\ lastTick.prev.some /\ ~lastTick.threw) =>
        /\ Dispatched(lastTick.att) =
               Owed(lastTick.read, lastTick.hour, lastTick.minute)
        /\ lastTick.read = lastTick.prev.read =>
               Dispatched(lastTick.att) = lastTick.prev.sent
\* two callbacks in one minute have each dispatched the one matching schedule,
\* and the queue holds the two messages
C18_Witness ==
    /\ lastTick.done /\ lastTick.prev.some
    /\ Len(lastTick.att) = 1 /\ lastTick.att[1].ok
    /\ Len(lastTick.prev.sent) = 1
    /\ Len(queue) = 2
    /\ body[queue[1]] = body[queue[2]]
    /\ origin[queue[1]] # origin[queue[2]]

\* C19: the hour and minute a tick compares schedules with are those of its
\* instant in Tehran, whatever the host's time zone, so what it dispatches
\* are the schedules stored for that Tehran hour:minute.
C19_TehranTime ==
    (lastTick.done /\ ~lastTick.threw) =>
        /\ lastTick.hour = getHours(lastTick.at, Tehran)
        /\ lastTick.minute = getMinutes(lastTick.at, Tehran)
        /\ Dispatched(lastTick.att) =
               Owed(lastTick.read, getHours(lastTick.at, Tehran),
                    getMinutes(lastTick.at, Tehran))

\* C20: with a single worker and no crash, entries are processed in enqueue
\* order: when the sendToQueue call of request A completed before that of
\* request B began, the worker has resolved A's entry, and is done with it,
\* before it starts on B's.
Started(id) ==
    \/ handler[TheWorker][id].pc # "none"
    \/ ends[id] > 0
    \/ ress[id] > 0
Resolved(id) == ress[id] > 0 /\ handler[TheWorker][id].pc = "none"
EnqueuedBefore(a, b) ==
    origin[a] \in okCalls /\ origin[b] # 0 /\ origin[a] < origin[b]
C20_EnqueueOrder ==
    \A a, b \in MsgIds :
        (EnqueuedBefore(a, b) /\ Started(b)) => Resolved(a)
C20_Witness ==
    \E a, b \in MsgIds :
        /\ EnqueuedBefore(a, b)
        /\ lastRes[a].kind = "ack"
        /\ handler[TheWorker][b].pc \notin {"none", "parse"}

\* C21: with two workers in one working directory, the document sent for an
\* entry is the PDF rendered from that entry's own URL, and no callback finds
\* report.pdf gone when it sends or unlinks it.
C21_OwnReport ==
    \A id \in MsgIds :
        lastRes[id].kind # "none" =>
            /\ lastRes[id].sent => lastRes[id].doc = JSONparse(body[id]).url
            /\ lastRes[id].err # "ENOENT"

\* C22: in the bots that analyse in-process, every request of overlapping
\* runs (/check handlers, cron callbacks) that is sent a document is sent the
\* one rendered from its own URL, and no run finds report.pdf gone when it
\* sends or unlinks it.
C22_OwnReportDirect ==
    \A g \in got :
        /\ g.doc.exists => g.doc = PdfOf(g.url)
        /\ g.err # "ENOENT"

====
